---- MODULE Spec2Model ----
(***************************************************************************)
(* Model of the ah_ee_image Ansible module (plugins/modules/ah_ee_image.py) *)
(* and of the private automation hub it talks to.                          *)
(*                                                                         *)
(* Strings whose characters matter (the image name, the tags, the server   *)
(* version) are sequences of one-character strings, so that rsplit and the *)
(* string comparison of the version gate are computed as Python computes   *)
(* them.  The hub holds one repository, RepoName, with at most one image.  *)
(* The collaborators AHAPIModule, AHPulpEERepository and AHUIEEImage are   *)
(* imported by the module but are not part of its file; their effect on    *)
(* the hub is modelled from the specification (section 4.1, 6 and 7).      *)
(* Check mode is a matter of these collaborators and is not modelled.      *)
(***************************************************************************)
EXTENDS Integers, Sequences, FiniteSets, TLC

VARIABLES
    \* module.params (lines 113-116)
    name_with_tag, tags, append, state,
    \* locals of main()
    name, tag, vers, exists, digest, image_tags,
    current_tags, new_tags, tags_to_add, tags_to_remove,
    add_todo, remove_todo,
    \* termination of the invocation: exit_json(changed=...) or fail_json(msg=...)
    pc, changed, msg,
    \* the hub
    hub_repo, hub_image, hub_tags, hub_version,
    \* the mutating calls issued by the current invocation, in order
    calls,
    \* the number of the current invocation, and how the previous one ended and
    \* what it reported
    run, prev, prev_changed

params == <<name_with_tag, tags, append, state>>
locals == <<name, tag, vers, exists, digest, image_tags,
            current_tags, new_tags, tags_to_add, tags_to_remove,
            add_todo, remove_todo>>
hub    == <<hub_repo, hub_image, hub_tags, hub_version>>
vars   == <<params, locals, pc, changed, msg, hub, calls, run, prev, prev_changed>>

----------------------------------------------------------------------------
\* Bounds

\* longest tags list given to the module
MaxTagsLen == 2
\* number of consecutive invocations with the same parameters
MaxRuns == 2
\* longest name string explored by the parsing specification
MaxNameLen == 4

----------------------------------------------------------------------------
\* Strings

latest == <<"l", "a", "t", "e", "s", "t">>
v1 == <<"1">>
v2 == <<"2">>

\* the repository of the hub
RepoName == <<"r">>
\* the digest of the image of the hub, and Python's None for a digest
Sha == "sha256:d"
None == "None"

\* the tags an image of the hub can carry, and the tags a playbook can ask for
TagUniverse == {latest, v1, v2}

\* the name parameters of the invocations: "r", "r:1", "r:2", "r:" and ":1"
Names == { <<"r">>, <<"r", ":", "1">>, <<"r", ":", "2">>, <<"r", ":">>, <<":", "1">> }

NameAlphabet == {"r", ":", "1"}

RECURSIVE StringsUpTo(_)
StringsUpTo(n) ==
    IF n = 0 THEN { <<>> }
    ELSE LET shorter == StringsUpTo(n - 1)
         IN  shorter \cup { Append(s, c) : s \in {x \in shorter : Len(x) = n - 1}, c \in NameAlphabet }

\* "4.3.2", the literal of the version gate
MinVersion == <<"4", ".", "3", ".", "2">>

\* the versions a hub can report
Versions == { <<"4", ".", "2", ".", "9">>,
              <<"4", ".", "3", ".", "1">>,
              <<"4", ".", "3", ".", "2">>,
              <<"4", ".", "3", ".", "1", "0">>,
              <<"4", ".", "4", ".", "0">>,
              <<"4", ".", "1", "0", ".", "0">>,
              <<"1", "0", ".", "0", ".", "0">> }

\* the code point of a character of a version string
Ord(c) ==
    CASE c = "." -> 46
      [] c = "0" -> 48
      [] c = "1" -> 49
      [] c = "2" -> 50
      [] c = "3" -> 51
      [] c = "4" -> 52
      [] c = "9" -> 57

\* Python's a < b on two strings: the first differing code point decides, and
\* a proper prefix is smaller
StrLess(a, b) ==
    \E i \in 1..Len(b) :
        /\ \A j \in 1..(i - 1) : j <= Len(a) /\ a[j] = b[j]
        /\ \/ i > Len(a)
           \/ Ord(a[i]) < Ord(b[i])

\* the index of the last colon of s, 0 when it has none
LastColon(s) ==
    IF \E i \in 1..Len(s) : s[i] = ":"
    THEN CHOOSE i \in 1..Len(s) : s[i] = ":" /\ \A j \in (i + 1)..Len(s) : s[j] # ":"
    ELSE 0

\* name_with_tag.rsplit(":", 1)
rsplit(s) ==
    IF LastColon(s) = 0
    THEN << s >>
    ELSE << SubSeq(s, 1, LastColon(s) - 1), SubSeq(s, LastColon(s) + 1, Len(s)) >>

\* set(tags) of a list
ToSet(l) == { l[i] : i \in 1..Len(l) }

\* the values of the tags parameter: unset, or a list of at most MaxTagsLen tags
RECURSIVE ListsUpTo(_)
ListsUpTo(n) ==
    IF n = 0 THEN { <<>> }
    ELSE LET shorter == ListsUpTo(n - 1)
         IN  shorter \cup { Append(l, t) : l \in {x \in shorter : Len(x) = n - 1}, t \in TagUniverse }

TagsParams ==
    { [given |-> FALSE, list |-> <<>>] } \cup { [given |-> TRUE, list |-> l] : l \in ListsUpTo(MaxTagsLen) }

----------------------------------------------------------------------------
\* The hub, as the collaborators see it

\* AHPulpEERepository.get_object(name), then .exists
get_object(n) == hub_repo /\ n = RepoName

\* AHUIEEImage.get_tag(name, tag, vers), then .digest
get_tag_digest(n, t) ==
    IF hub_repo /\ n = RepoName /\ hub_image /\ t \in hub_tags THEN Sha ELSE None

\* AHUIEEImage.get_tag(name, tag, vers), then .tags
get_tag_tags(n, t) ==
    IF get_tag_digest(n, t) = Sha THEN hub_tags ELSE {}

\* one mutating call, as logged in calls
Call(op, t, ok) == [op |-> op, digest |-> digest, tag |-> t, ok |-> ok]

----------------------------------------------------------------------------
\* The expressions of main()

\* line 120
TagOf(name_tag) == IF Len(name_tag) = 1 THEN latest ELSE name_tag[2]

\* line 127
VersionTooOld(v) == StrLess(v, MinVersion)

NoTagsUnsetOnly(p) == ~p.given

\* line 160
NoTags(p) == ~p.given \/ Len(p.list) = 0

TagsToAddAll(new, cur) == new

\* line 170
TagsToAdd(new, cur) == new \ cur

TagsToRemoveAll(cur, new) == cur

\* line 184
TagsToRemove(cur, new) == cur \ new

AppendChangedAlways(add) == TRUE

\* line 179
AppendChanged(add) == add # {}

ReplaceChangedRemoveOnly(rem, add) == rem # {}

\* line 191
ReplaceChanged(rem, add) == rem # {} \/ add # {}

----------------------------------------------------------------------------
\* The state after construction: the parameters are given, the hub is in some
\* state, and main() is about to read its parameters.

HubStates ==
    { [repo |-> FALSE, image |-> FALSE, tags |-> {}],
      [repo |-> TRUE,  image |-> FALSE, tags |-> {}] }
    \cup { [repo |-> TRUE, image |-> TRUE, tags |-> T] : T \in (SUBSET TagUniverse) \ { {} } }

FreshLocals ==
    /\ name = <<>>
    /\ tag = <<>>
    /\ vers = <<>>
    /\ exists = FALSE
    /\ digest = None
    /\ image_tags = {}
    /\ current_tags = {}
    /\ new_tags = {}
    /\ tags_to_add = {}
    /\ tags_to_remove = {}
    /\ add_todo = {}
    /\ remove_todo = {}

Init ==
    /\ name_with_tag \in Names
    /\ tags \in TagsParams
    /\ append \in BOOLEAN
    /\ state \in {"present", "absent"}
    /\ \E h \in HubStates :
        /\ hub_repo = h.repo
        /\ hub_image = h.image
        /\ hub_tags = h.tags
    /\ hub_version \in Versions
    /\ FreshLocals
    /\ pc = "parse"
    /\ changed = FALSE
    /\ msg = "none"
    /\ calls = <<>>
    /\ run = 1
    /\ prev = "none"
    /\ prev_changed = FALSE

\* a step of main() that changes only its locals and its position
Step(next) ==
    /\ pc' = next
    /\ UNCHANGED <<params, changed, msg, hub, calls, run, prev, prev_changed>>

\* module.exit_json(changed=c)
ExitJson(c) ==
    /\ pc' = "exit"
    /\ changed' = c
    /\ UNCHANGED <<params, msg, run, prev, prev_changed>>

\* module.fail_json(msg=m)
FailJson(m) ==
    /\ pc' = "failed"
    /\ msg' = m
    /\ UNCHANGED <<params, changed, run, prev, prev_changed>>

----------------------------------------------------------------------------
\* main()

\* lines 113-120
ParseName ==
    /\ pc = "parse"
    /\ name' = rsplit(name_with_tag)[1]
    /\ tag' = TagOf(rsplit(name_with_tag))
    /\ Step("authenticate")
    /\ UNCHANGED <<vers, exists, digest, image_tags, current_tags, new_tags,
                   tags_to_add, tags_to_remove, add_todo, remove_todo>>

\* line 123
Authenticate ==
    /\ pc = "authenticate"
    /\ Step("version")
    /\ UNCHANGED locals

\* lines 126-128, the version is too old
VersionRejected ==
    /\ pc = "version"
    /\ VersionTooOld(hub_version)
    /\ vers' = hub_version
    /\ FailJson("version")
    /\ UNCHANGED <<name, tag, exists, digest, image_tags, current_tags, new_tags,
                   tags_to_add, tags_to_remove, add_todo, remove_todo, hub, calls>>

\* lines 126-128, the version passes
VersionAccepted ==
    /\ pc = "version"
    /\ ~VersionTooOld(hub_version)
    /\ vers' = hub_version
    /\ Step("get_object")
    /\ UNCHANGED <<name, tag, exists, digest, image_tags, current_tags, new_tags,
                   tags_to_add, tags_to_remove, add_todo, remove_todo>>

\* lines 131-138, the repository does not exist
RepositoryMissing ==
    /\ pc = "get_object"
    /\ ~get_object(name)
    /\ exists' = FALSE
    /\ FailJson("repository")
    /\ UNCHANGED <<name, tag, vers, digest, image_tags, current_tags, new_tags,
                   tags_to_add, tags_to_remove, add_todo, remove_todo, hub, calls>>

\* lines 131-138, the repository exists
RepositoryFound ==
    /\ pc = "get_object"
    /\ get_object(name)
    /\ exists' = TRUE
    /\ Step("get_tag")
    /\ UNCHANGED <<name, tag, vers, digest, image_tags, current_tags, new_tags,
                   tags_to_add, tags_to_remove, add_todo, remove_todo>>

\* lines 141-146
GetTag ==
    /\ pc = "get_tag"
    /\ digest' = get_tag_digest(name, tag)
    /\ image_tags' = get_tag_tags(name, tag)
    /\ Step("state")
    /\ UNCHANGED <<name, tag, vers, exists, current_tags, new_tags,
                   tags_to_add, tags_to_remove, add_todo, remove_todo>>

\* a blocking call of lines 123-146 fails in the transport: fail_json
TransportFailure ==
    /\ pc \in {"authenticate", "version", "get_object", "get_tag"}
    /\ FailJson("transport")
    /\ UNCHANGED <<locals, hub, calls>>

\* lines 149-152: state=absent and the tag resolves to no digest
AbsentNoDigest ==
    /\ pc = "state"
    /\ state = "absent"
    /\ digest = None
    /\ ExitJson(FALSE)
    /\ UNCHANGED <<locals, hub, calls>>

\* repository_pulp.delete_image(digest) succeeds: the image and its tags are
\* removed from the hub and the collaborator ends the invocation with
\* changed=true
delete_image ==
    /\ hub_image' = FALSE
    /\ hub_tags' = {}
    /\ UNCHANGED <<hub_repo, hub_version>>
    /\ calls' = Append(calls, Call("delete_image", <<>>, TRUE))
    /\ ExitJson(TRUE)

\* a mutating call fails in the transport: the hub is unchanged, fail_json
CallFails(op, t) ==
    /\ calls' = Append(calls, Call(op, t, FALSE))
    /\ FailJson("transport")
    /\ UNCHANGED hub

AbsentDeleteSkipped ==
    /\ pc = "state"
    /\ state = "absent"
    /\ digest # None
    /\ Step("tags")
    /\ UNCHANGED locals

\* lines 149-153: state=absent and the tag resolves to a digest
AbsentDelete ==
    /\ pc = "state"
    /\ state = "absent"
    /\ digest # None
    /\ delete_image
    /\ UNCHANGED locals

\* line 153, the call fails
AbsentDeleteFails ==
    /\ pc = "state"
    /\ state = "absent"
    /\ digest # None
    /\ CallFails("delete_image", <<>>)
    /\ UNCHANGED locals

PresentNoDigestIgnored ==
    /\ pc = "state"
    /\ state # "absent"
    /\ digest = None
    /\ Step("tags")
    /\ UNCHANGED locals

\* lines 155-156: state=present and the tag resolves to no digest
PresentNoDigest ==
    /\ pc = "state"
    /\ state # "absent"
    /\ digest = None
    /\ FailJson("tag")
    /\ UNCHANGED <<locals, hub, calls>>

\* lines 149 and 155, neither branch taken
PresentResolved ==
    /\ pc = "state"
    /\ state # "absent"
    /\ digest # None
    /\ Step("tags")
    /\ UNCHANGED locals

\* lines 160-163: no tags, append mode
NoTagsAppend ==
    /\ pc = "tags"
    /\ NoTags(tags)
    /\ append
    /\ ExitJson(FALSE)
    /\ UNCHANGED <<locals, hub, calls>>

\* lines 160-164: no tags, replace mode
NoTagsDelete ==
    /\ pc = "tags"
    /\ NoTags(tags)
    /\ ~append
    /\ delete_image
    /\ UNCHANGED locals

\* line 164, the call fails
NoTagsDeleteFails ==
    /\ pc = "tags"
    /\ NoTags(tags)
    /\ ~append
    /\ CallFails("delete_image", <<>>)
    /\ UNCHANGED locals

\* lines 160 and 166-170: tags are given
ComputeTagsToAdd ==
    /\ pc = "tags"
    /\ ~NoTags(tags)
    /\ current_tags' = image_tags
    /\ new_tags' = ToSet(tags.list)
    /\ tags_to_add' = TagsToAdd(ToSet(tags.list), image_tags)
    /\ add_todo' = TagsToAdd(ToSet(tags.list), image_tags)
    /\ Step("add")
    /\ UNCHANGED <<name, tag, vers, exists, digest, image_tags, tags_to_remove, remove_todo>>

\* lines 171-172: one iteration of the loop, in the order the set yields
CreateTag ==
    /\ pc = "add"
    /\ \E t \in add_todo :
        /\ add_todo' = add_todo \ {t}
        /\ hub_tags' = hub_tags \cup {t}
        /\ calls' = Append(calls, Call("create_tag", t, TRUE))
    /\ pc' = "add"
    /\ UNCHANGED <<params, changed, msg, run, prev, prev_changed, hub_repo, hub_image, hub_version>>
    /\ UNCHANGED <<name, tag, vers, exists, digest, image_tags, current_tags, new_tags,
                   tags_to_add, tags_to_remove, remove_todo>>

CreateTagFailsContinue ==
    /\ pc = "add"
    /\ \E t \in add_todo :
        /\ add_todo' = add_todo \ {t}
        /\ calls' = Append(calls, Call("create_tag", t, FALSE))
    /\ pc' = "add"
    /\ UNCHANGED <<params, changed, msg, run, prev, prev_changed, hub>>
    /\ UNCHANGED <<name, tag, vers, exists, digest, image_tags, current_tags, new_tags,
                   tags_to_add, tags_to_remove, remove_todo>>

\* line 172, the call fails
CreateTagFails ==
    /\ pc = "add"
    /\ \E t \in add_todo : CallFails("create_tag", t)
    /\ UNCHANGED locals

\* lines 174-181
AppendExit ==
    /\ pc = "add"
    /\ add_todo = {}
    /\ append
    /\ ExitJson(AppendChanged(tags_to_add))
    /\ UNCHANGED <<locals, hub, calls>>

\* lines 174 and 184
ComputeTagsToRemove ==
    /\ pc = "add"
    /\ add_todo = {}
    /\ ~append
    /\ tags_to_remove' = TagsToRemove(current_tags, new_tags)
    /\ remove_todo' = TagsToRemove(current_tags, new_tags)
    /\ Step("remove")
    /\ UNCHANGED <<name, tag, vers, exists, digest, image_tags, current_tags, new_tags,
                   tags_to_add, add_todo>>

\* lines 185-186: one iteration of the loop, in the order the set yields
DeleteTag ==
    /\ pc = "remove"
    /\ \E t \in remove_todo :
        /\ remove_todo' = remove_todo \ {t}
        /\ hub_tags' = hub_tags \ {t}
        /\ calls' = Append(calls, Call("delete_tag", t, TRUE))
    /\ pc' = "remove"
    /\ UNCHANGED <<params, changed, msg, run, prev, prev_changed, hub_repo, hub_image, hub_version>>
    /\ UNCHANGED <<name, tag, vers, exists, digest, image_tags, current_tags, new_tags,
                   tags_to_add, tags_to_remove, add_todo>>

\* line 186, the call fails
DeleteTagFails ==
    /\ pc = "remove"
    /\ \E t \in remove_todo : CallFails("delete_tag", t)
    /\ UNCHANGED locals

\* lines 187-193
ReplaceExit ==
    /\ pc = "remove"
    /\ remove_todo = {}
    /\ ExitJson(ReplaceChanged(tags_to_remove, tags_to_add))
    /\ UNCHANGED <<locals, hub, calls>>

\* the playbook is run again with the same parameters against the same hub
Rerun ==
    /\ pc \in {"exit", "failed"}
    /\ run < MaxRuns
    /\ run' = run + 1
    /\ prev' = pc
    /\ prev_changed' = changed
    /\ pc' = "parse"
    /\ changed' = FALSE
    /\ msg' = "none"
    /\ calls' = <<>>
    /\ name' = <<>>
    /\ tag' = <<>>
    /\ vers' = <<>>
    /\ exists' = FALSE
    /\ digest' = None
    /\ image_tags' = {}
    /\ current_tags' = {}
    /\ new_tags' = {}
    /\ tags_to_add' = {}
    /\ tags_to_remove' = {}
    /\ add_todo' = {}
    /\ remove_todo' = {}
    /\ UNCHANGED <<params, hub>>

Next ==
    \/ ParseName
    \/ Authenticate
    \/ VersionRejected
    \/ VersionAccepted
    \/ RepositoryMissing
    \/ RepositoryFound
    \/ GetTag
    \/ TransportFailure
    \/ AbsentNoDigest
    \/ AbsentDelete
    \/ AbsentDeleteFails
    \/ PresentNoDigest
    \/ PresentResolved
    \/ NoTagsAppend
    \/ NoTagsDelete
    \/ NoTagsDeleteFails
    \/ ComputeTagsToAdd
    \/ CreateTag
    \/ CreateTagFails
    \/ AppendExit
    \/ ComputeTagsToRemove
    \/ DeleteTag
    \/ DeleteTagFails
    \/ ReplaceExit
    \/ Rerun

Spec == Init /\ [][Next]_vars

\* The parsing of the name alone (lines 113-120), for every name string of at
\* most MaxNameLen characters
InitParse ==
    /\ name_with_tag \in StringsUpTo(MaxNameLen)
    /\ tags = [given |-> FALSE, list |-> <<>>]
    /\ append = TRUE
    /\ state = "present"
    /\ hub_repo = TRUE
    /\ hub_image = FALSE
    /\ hub_tags = {}
    /\ hub_version = MinVersion
    /\ FreshLocals
    /\ pc = "parse"
    /\ changed = FALSE
    /\ msg = "none"
    /\ calls = <<>>
    /\ run = 1
    /\ prev = "none"
    /\ prev_changed = FALSE

NextParse == ParseName

SpecParse == InitParse /\ [][NextParse]_vars

----------------------------------------------------------------------------
\* Vocabulary of the properties

\* the requested tag set; an unset tags parameter requests nothing
Requested == IF tags.given THEN ToSet(tags.list) ELSE {}

\* the positions of the calls of one kind in calls
Issued(op) == { i \in 1..Len(calls) : calls[i].op = op }

\* the tags the calls of one kind were issued for
IssuedFor(op) == { calls[i].tag : i \in Issued(op) }

\* the tags the successful calls of one kind were issued for
Applied(op) == { calls[i].tag : i \in { k \in Issued(op) : calls[k].ok } }

\* no call of this kind was issued twice for one tag
OncePerTag(op) == Cardinality(Issued(op)) = Cardinality(IssuedFor(op))

\* the one successful delete_image call for the resolved digest
DeleteImageCall == [op |-> "delete_image", digest |-> Sha, tag |-> <<>>, ok |-> TRUE]

\* the tag the name parameter refers to
NamedTag == TagOf(rsplit(name_with_tag))

\* the numeric fields of a version string, and the order of versions
Digit(c) == Ord(c) - 48

RECURSIVE VersionFields(_, _, _)
VersionFields(v, i, acc) ==
    IF i > Len(v) THEN << acc >>
    ELSE IF v[i] = "." THEN << acc >> \o VersionFields(v, i + 1, 0)
    ELSE VersionFields(v, i + 1, 10 * acc + Digit(v[i]))

VersionBelow(a, b) ==
    LET x == VersionFields(a, 1, 0)
        y == VersionFields(b, 1, 0)
    IN  \/ x[1] < y[1]
        \/ x[1] = y[1] /\ x[2] < y[2]
        \/ x[1] = y[1] /\ x[2] = y[2] /\ x[3] < y[3]

----------------------------------------------------------------------------
\* C1: an invocation with state=present, append=true and a non-empty tags list
\* that ends with exit_json leaves the image with the tags current \cup
\* requested, has issued create_tag exactly for requested \ current and no
\* delete_tag or delete_image, and reports changed iff requested is not a
\* subset of current.
C1_AppendUnion ==
    (pc = "exit" /\ state = "present" /\ append /\ Requested # {}) =>
        /\ hub_image
        /\ hub_tags = image_tags \cup Requested
        /\ IssuedFor("create_tag") = Requested \ image_tags
        /\ OncePerTag("create_tag")
        /\ Issued("delete_tag") = {}
        /\ Issued("delete_image") = {}
        /\ changed <=> ~(Requested \subseteq image_tags)

\* the example of the specification: current {1, 2}, requested {2, latest}
C1_Witness ==
    /\ pc = "exit"
    /\ state = "present"
    /\ append
    /\ image_tags = {v1, v2}
    /\ Requested = {v2, latest}
    /\ hub_tags = {v1, v2, latest}
    /\ changed

\* C2, as amended: an invocation with state=present, append=false and a
\* non-empty tags list that ends with exit_json leaves the image with exactly
\* the requested tags, has issued create_tag exactly for requested \ current
\* and delete_tag exactly for current \ requested, and reports changed iff
\* current differs from requested.
C2_ReplaceExact ==
    (pc = "exit" /\ state = "present" /\ ~append /\ Requested # {}) =>
        /\ hub_image
        /\ hub_tags = Requested
        /\ IssuedFor("create_tag") = Requested \ image_tags
        /\ OncePerTag("create_tag")
        /\ IssuedFor("delete_tag") = image_tags \ Requested
        /\ OncePerTag("delete_tag")
        /\ Issued("delete_image") = {}
        /\ changed <=> (image_tags # Requested)

\* the example of the specification: current {1, 2}, requested {2, latest}
C2_Witness ==
    /\ pc = "exit"
    /\ state = "present"
    /\ ~append
    /\ image_tags = {v1, v2}
    /\ Requested = {v2, latest}
    /\ hub_tags = {v2, latest}
    /\ changed

\* C2, as stated: the same for every requested tag set, the empty one included
C2_Original ==
    (pc = "exit" /\ state = "present" /\ ~append) =>
        /\ hub_tags = Requested
        /\ IssuedFor("create_tag") = Requested \ image_tags
        /\ IssuedFor("delete_tag") = image_tags \ Requested
        /\ changed <=> (image_tags # Requested)

\* the parameters for which a second run finds what the first run left
C3_Covered ==
    \/ state = "absent"
    \/ append
    \/ NamedTag \in Requested

\* C3, as amended: when state=absent, or append=true, or the tag of the name is
\* among the requested tags, a run that follows a successful run with the same
\* parameters issues no mutating call, fails only if the transport fails, and
\* reports changed=false when it ends with exit_json.
C3_Idempotent ==
    (run > 1 /\ prev = "exit" /\ C3_Covered) =>
        /\ calls = <<>>
        /\ pc = "failed" => msg = "transport"
        /\ pc = "exit" => ~changed

\* a second run in replace mode that reports no change after a first run that
\* reported one
C3_Witness ==
    /\ run > 1
    /\ prev = "exit"
    /\ prev_changed
    /\ state = "present"
    /\ ~append
    /\ NamedTag \in Requested
    /\ pc = "exit"
    /\ ~changed

\* C3, as stated: the same for every name, tags list and append flag
C3_Original ==
    (run > 1 /\ prev = "exit") =>
        /\ calls = <<>>
        /\ pc = "failed" => msg = "transport"
        /\ pc = "exit" => ~changed

\* C4: with state=absent the invocation never reaches the tag reconciliation
\* and never fails with "tag does not exist"; it issues at most one call, a
\* delete_image; when it ends with exit_json, either the tag resolved to no
\* digest, nothing was called and changed=false, or the tag resolved,
\* delete_image was called once for the digest, the image and its tags are
\* gone and changed=true.
C4_Absent ==
    state = "absent" =>
        /\ pc \notin {"tags", "add", "remove"}
        /\ msg # "tag"
        /\ Len(calls) <= 1
        /\ Issued("create_tag") = {} /\ Issued("delete_tag") = {}
        /\ (pc = "exit" /\ digest = None) => (~changed /\ calls = <<>>)
        /\ (pc = "exit" /\ digest # None) =>
              (changed /\ calls = << DeleteImageCall >> /\ ~hub_image /\ hub_tags = {})
        /\ (pc = "failed" /\ calls # <<>>) => (~calls[1].ok /\ hub_image /\ hub_tags = image_tags)

\* state=absent deletes a resolved image although tags are given in replace mode
C4_Witness ==
    /\ state = "absent"
    /\ pc = "exit"
    /\ changed
    /\ ~append
    /\ Requested = {v2}
    /\ image_tags = {v1, v2}
    /\ ~hub_image
    /\ calls = << DeleteImageCall >>

\* C5: with state=present and no tags (unset or empty list), no create_tag or
\* delete_tag call is issued and the reconciliation loops are not entered; in
\* append mode nothing is called and exit_json reports changed=false; in
\* replace mode an invocation that ends with exit_json has issued one
\* delete_image call for the digest and the image is gone.
C5_NoTags ==
    (state = "present" /\ Requested = {}) =>
        /\ pc \notin {"add", "remove"}
        /\ Issued("create_tag") = {} /\ Issued("delete_tag") = {}
        /\ Len(calls) <= 1
        /\ append => calls = <<>>
        /\ (pc = "exit" /\ append) => (~changed /\ hub_image /\ hub_tags = image_tags)
        /\ (pc = "exit" /\ ~append) => (calls = << DeleteImageCall >> /\ ~hub_image /\ hub_tags = {})

\* replace mode with an empty tags list has deleted the image
C5_Witness ==
    /\ state = "present"
    /\ tags.given
    /\ tags.list = <<>>
    /\ ~append
    /\ pc = "exit"
    /\ image_tags = {v1, v2}
    /\ ~hub_image
    /\ calls = << DeleteImageCall >>

\* C6, as stated: the invocation fails at the version gate exactly when the
\* server version is below 4.3.2 in version order, and then before the
\* repository lookup and before any mutating call.
C6_VersionGate ==
    /\ msg = "version" => (VersionBelow(hub_version, MinVersion) /\ calls = <<>> /\ ~exists)
    /\ pc \in {"get_object", "get_tag", "state", "tags", "add", "remove", "exit"}
          => ~VersionBelow(hub_version, MinVersion)

\* C7: when the named repository does not exist, or state=present and the tag
\* resolves to no digest, the invocation ends with fail_json, never with
\* exit_json, issues no mutating call and leaves the name:tag unresolved.
C7_MissingTarget ==
    /\ (pc \notin {"parse", "authenticate", "version", "get_object"} /\ ~get_object(name))
          => (pc = "failed" /\ calls = <<>>)
    /\ msg = "repository" => (pc = "failed" /\ calls = <<>>)
    /\ (state = "present" /\ exists /\ digest = None /\ pc # "get_tag" /\ msg # "transport")
          => /\ pc \in {"state", "failed"}
             /\ calls = <<>>
             /\ get_tag_digest(name, tag) = None
    /\ msg = "tag" => (pc = "failed" /\ calls = <<>> /\ state = "present" /\ digest = None)

\* state=present with tags to add fails on a tag that does not resolve
C7_Witness ==
    /\ pc = "failed"
    /\ msg = "tag"
    /\ Requested = {v1, v2}
    /\ hub_image
    /\ hub_tags = {latest}

\* C8, as stated: once the name is parsed, the reference is the split of the
\* name on its last colon, the tag is "latest" when the name has no colon, and
\* repository_name is not empty.
C8_Reference ==
    pc # "parse" =>
        /\ LastColon(name_with_tag) = 0 => (name = name_with_tag /\ tag = latest)
        /\ LastColon(name_with_tag) # 0 =>
              /\ name \o <<":">> \o tag = name_with_tag
              /\ \A i \in 1..Len(tag) : tag[i] # ":"
        /\ name # <<>>

\* C9: in replace mode with tags given, no create_tag call follows a
\* delete_tag call, a delete_tag call is issued only once every tag of
\* requested \ current is created, and at every state the image carries all of
\* its original tags or all of the requested tags, and at least one tag.
C9_AddBeforeRemove ==
    (state = "present" /\ ~append /\ Requested # {} /\ digest # None) =>
        /\ \A i \in Issued("delete_tag") : \A j \in Issued("create_tag") : j < i
        /\ Issued("delete_tag") # {} => (Requested \ image_tags) \subseteq Applied("create_tag")
        /\ image_tags \subseteq hub_tags \/ Requested \subseteq hub_tags
        /\ hub_tags # {}
        /\ hub_image

\* in the middle of the removals, after the additions
C9_Witness ==
    /\ state = "present"
    /\ ~append
    /\ pc = "remove"
    /\ image_tags = {v1, v2}
    /\ Requested = {latest}
    /\ Applied("create_tag") = {latest}
    /\ Applied("delete_tag") = {v1}
    /\ remove_todo = {v2}

\* C10: a failed create_tag or delete_tag call is the last call of the
\* invocation, which has ended with fail_json; no earlier call of it failed,
\* and the hub keeps the tags the earlier calls added and removed.
C10_FailureFatal ==
    \A i \in 1..Len(calls) :
        (~calls[i].ok /\ calls[i].op \in {"create_tag", "delete_tag"}) =>
            /\ i = Len(calls)
            /\ pc = "failed"
            /\ msg = "transport"
            /\ \A k \in 1..(i - 1) : calls[k].ok
            /\ hub_tags = (image_tags \cup Applied("create_tag")) \ Applied("delete_tag")
            /\ calls[i].tag \in
                  (IF calls[i].op = "create_tag" THEN Requested \ hub_tags ELSE hub_tags \ Requested)

\* a removal failed after an addition and a removal: the image has a tag set
\* that is neither the original nor the requested one
C10_Witness ==
    /\ pc = "failed"
    /\ image_tags = {v1, v2}
    /\ Requested = {latest}
    /\ Applied("create_tag") = {latest}
    /\ Applied("delete_tag") = {v1}
    /\ hub_tags = {v2, latest}
    /\ ~calls[Len(calls)].ok

====
